---- MODULE Spec2Model ----
(***************************************************************************)
(* Cybersecurity interview coach: the answer evaluator (evaluate_answer),  *)
(* the command-line session (interactive_session) and the two HTTP servers *)
(* (webapp/app.py, webapp/server_no_flask.py).                             *)
(*                                                                         *)
(* Text is modelled as a sequence of one-character strings, so that        *)
(* lower(), split(), substring containment and the regular expression of   *)
(* the behavioral rule are computed on characters as Python computes them. *)
(* Python values that may be absent or None are tagged records             *)
(* [tag |-> "absent" | "none" | "str" | "list" | ..., val |-> ...].        *)
(* The em dash of two feedback messages is written "--".                   *)
(***************************************************************************)
EXTENDS Integers, Sequences, FiniteSets, TLC

VARIABLES
    question,     \* evaluator harness: the question record passed in
    answer_text,  \* evaluator harness: the answer value passed in
    result,       \* evaluator harness: what evaluate_answer produced
    epc,          \* evaluator harness: "call" before, "done" after the call
    program,      \* which program this run is: "cli" (cyber_interview_bot.py),
                  \* "app" (webapp/app.py), "server_no_flask", or "eval"
                  \* (evaluate_answer called directly, as run_tests_simple.py does)
    questions,    \* interactive_session: the list load_questions() returned
    pc,           \* interactive_session: where the session stands
    difficulty,   \* interactive_session: the session difficulty
    pool,         \* interactive_session: the questions choose_questions returned
    it,           \* interactive_session: how many items enumerate(pool) has
                  \* yielded to the for loop
    i,            \* interactive_session: the loop variable i
    scores,       \* interactive_session: scores
    details,      \* interactive_session: details, as <<id, score, reason>>
    typed,        \* interactive_session: the last command or answer the user
                  \* entered, stripped and lower-cased
    log,          \* the lines of session_log.txt, in order
    now,          \* the clock datetime.utcnow() reads
    evals,        \* the number of evaluate_answer calls made in this run
    returned,     \* the number of those calls that returned
    QUESTIONS,    \* HTTP servers: the module-level QUESTIONS list
    resp,         \* the last POST /api/evaluate request and how it ended
    served        \* the number of POST requests handled so far

evars == <<question, answer_text, result, epc>>
clivars == <<questions, pc, difficulty, pool, it, i, scores, details, typed, log, now>>
httpvars == <<QUESTIONS, resp, served>>
vars == <<program, evars, clivars, httpvars, evals, returned>>

-----------------------------------------------------------------------------
(* Characters and strings                                                  *)

UpperChars == <<"A","B","C","D","E","F","G","H","I","J","K","L","M",
                "N","O","P","Q","R","S","T","U","V","W","X","Y","Z">>
LowerChars == <<"a","b","c","d","e","f","g","h","i","j","k","l","m",
                "n","o","p","q","r","s","t","u","v","w","x","y","z">>
Digits == {"0","1","2","3","4","5","6","7","8","9"}
Whitespace == {" ", "\t", "\n"}

Range(f) == {f[p] : p \in DOMAIN f}

\* \d of the re module
IsDigit(c) == c \in Digits
\* \s of the re module, and the separators of str.split() and str.strip()
IsSpace(c) == c \in Whitespace
\* \w of the re module: letters, digits and the underscore
WordChars == Range(UpperChars) \cup Range(LowerChars) \cup Digits \cup {"_"}
IsWordChar(c) == c \in WordChars

\* str.lower() on one character: an upper-case letter maps to its lower-case
\* letter, every other character to itself
ToLower == [c \in Range(UpperChars) |->
               LowerChars[CHOOSE p \in DOMAIN UpperChars : UpperChars[p] = c]]
LowerChar(c) == IF c \in DOMAIN ToLower THEN ToLower[c] ELSE c

UpperChar(c) ==
    IF c \in Range(LowerChars)
    THEN UpperChars[CHOOSE k \in DOMAIN LowerChars : LowerChars[k] = c]
    ELSE c

IsLetter(c) == c \in Range(UpperChars) \cup Range(LowerChars)

\* str.title(): a letter that follows no letter is upper-cased, the others
\* are lower-cased
title(s) ==
    [k \in 1..Len(s) |->
        IF k = 1 \/ ~IsLetter(s[k - 1]) THEN UpperChar(s[k]) ELSE LowerChar(s[k])]

\* str.lower()
lower(s) == [p \in 1..Len(s) |-> LowerChar(s[p])]

\* the test `sub in s` on strings
Contains(s, sub) ==
    \/ Len(sub) = 0
    \/ \E p \in 1..(Len(s) - Len(sub) + 1) :
          /\ s[p] = sub[1]
          /\ \A k \in 1..Len(sub) : s[p + k - 1] = sub[k]

\* len(s.split()): the number of maximal runs of non-whitespace characters
WordCount(s) ==
    Cardinality({p \in 1..Len(s) :
                    /\ ~IsSpace(s[p])
                    /\ (p = 1 \/ IsSpace(s[p - 1]))})

\* str.strip()
strip(s) ==
    LET keep == {p \in 1..Len(s) : ~IsSpace(s[p])}
    IN  IF keep = {} THEN <<>>
        ELSE LET lo == CHOOSE p \in keep : \A j \in keep : p <= j
                 hi == CHOOSE p \in keep : \A j \in keep : j <= p
             IN  SubSeq(s, lo, hi)

\* round(num / den * scale), Python 3: round half to even. The float product
\* equals the exact quotient's rounding for every den the model uses.
RoundDiv(num, den) ==
    LET q == num \div den
        r == num % den
    IN  IF 2 * r > den THEN q + 1
        ELSE IF 2 * r < den THEN q
        ELSE IF q % 2 = 0 THEN q ELSE q + 1

Min(a, b) == IF a < b THEN a ELSE b
Max(a, b) == IF a > b THEN a ELSE b

-----------------------------------------------------------------------------
(* The regular expression of the behavioral rule, on ans_lower:            *)
(*  \b(\d+%|\d+\s+(days|weeks|months|years)|reduced|improved|decreased|    *)
(*     increased)\b                                                        *)
(* Offsets run from 0 (before the first character) to Len(s).              *)

DurationUnits == { <<"d","a","y","s">>, <<"w","e","e","k","s">>,
                   <<"m","o","n","t","h","s">>, <<"y","e","a","r","s">> }
MetricVerbs == { <<"r","e","d","u","c","e","d">>, <<"i","m","p","r","o","v","e","d">>,
                 <<"d","e","c","r","e","a","s","e","d">>,
                 <<"i","n","c","r","e","a","s","e","d">> }

\* is there a word character right after offset p
WordAfter(s, p) == p >= 0 /\ p + 1 <= Len(s) /\ IsWordChar(s[p + 1])

\* \b at offset p: exactly one side is a word character
WordBoundary(s, p) == WordAfter(s, p - 1) # WordAfter(s, p)

\* the literal lit occupies s[p+1 .. p+Len(lit)]
LiteralAt(s, p, lit) ==
    /\ p + Len(lit) <= Len(s)
    /\ \A k \in 1..Len(lit) : s[p + k] = lit[k]

\* s[p+1 .. j] is a non-empty run of digits
DigitsBetween(s, p, j) == p < j /\ j <= Len(s) /\ \A k \in (p + 1)..j : IsDigit(s[k])

\* s[p+1 .. j] is a non-empty run of whitespace
SpacesBetween(s, p, j) == p < j /\ j <= Len(s) /\ \A k \in (p + 1)..j : IsSpace(s[k])

\* \d+% from offset p, closed by \b
PercentAt(s, p) ==
    /\ DigitsBetween(s, p, p + 1)
    /\ \E j \in (p + 1)..Len(s) :
        /\ DigitsBetween(s, p, j)
        /\ LiteralAt(s, j, <<"%">>)
        /\ WordBoundary(s, j + 1)

\* \d+\s+(days|weeks|months|years) from offset p, closed by \b
DurationAt(s, p) ==
    /\ DigitsBetween(s, p, p + 1)
    /\ \E j \in (p + 1)..Len(s) :
        /\ DigitsBetween(s, p, j)
        /\ \E k \in (j + 1)..Len(s) :
              /\ SpacesBetween(s, j, k)
              /\ \E u \in DurationUnits :
                    LiteralAt(s, k, u) /\ WordBoundary(s, k + Len(u))

\* reduced|improved|decreased|increased from offset p, closed by \b
VerbAt(s, p) ==
    \E v \in MetricVerbs : LiteralAt(s, p, v) /\ WordBoundary(s, p + Len(v))

\* re.search(pattern, s) finds a match
MetricSearch(s) ==
    \E p \in 0..Len(s) :
        /\ WordBoundary(s, p)
        /\ (PercentAt(s, p) \/ DurationAt(s, p) \/ VerbAt(s, p))

-----------------------------------------------------------------------------
(* Python values                                                           *)

Absent == [tag |-> "absent", val |-> ""]      \* the key is not in the dict
None == [tag |-> "none", val |-> ""]          \* null in the JSON file
Str(v) == [tag |-> "str", val |-> v]          \* a str; v is a TLA+ string
Text(cs) == [tag |-> "text", val |-> cs]      \* a str held as characters
List(xs) == [tag |-> "list", val |-> xs]      \* a list

\* dict.get(key, default) where field is the stored value or Absent
Get(field, default) == IF field.tag = "absent" THEN default ELSE field

\* truth value of a str, a list or None
Truthy(v) ==
    CASE v.tag = "none" -> FALSE
      [] v.tag = "str" -> v.val # ""
      [] v.tag = "text" -> Len(v.val) > 0
      [] v.tag = "list" -> Len(v.val) > 0
      [] OTHER -> TRUE

-----------------------------------------------------------------------------
(* evaluate_answer                                                         *)

StarMarkers == <<
    <<"s","i","t","u","a","t","i","o","n">>, <<"t","a","s","k">>,
    <<"a","c","t","i","o","n">>, <<"r","e","s","u","l","t">>,
    <<"c","h","a","l","l","e","n","g","e">>, <<"l","e","d">>,
    <<"i","m","p","l","e","m","e","n","t","e","d">>, <<"o","u","t","c","o","m","e">>,
    <<"i","m","p","a","c","t">>, <<"r","e","s","p","o","n","s","i","b">> >>

\* what a call produces: raised names the exception that ended it, or is "none"
Returned(score, reason, strengths, weaknesses, tips) ==
    [raised |-> "none", score |-> score, reason |-> reason,
     strengths |-> strengths, weaknesses |-> weaknesses, tips |-> tips]
Raised(exc) ==
    [raised |-> exc, score |-> 0, reason |-> "",
     strengths |-> <<>>, weaknesses |-> <<>>, tips |-> <<>>]

\* kw.lower() forgotten: the keyword is compared as written
MatchedAsWritten(keywords, ans_lower) ==
    Cardinality({p \in 1..Len(keywords) : Contains(ans_lower, keywords[p])})

\* the number of keywords kw with kw.lower() in ans_lower
Matched(keywords, ans_lower) ==
    Cardinality({p \in 1..Len(keywords) : Contains(ans_lower, lower(keywords[p]))})

\* the "final polish" and the return statement
FinalPolish(score, reasoning, strengths, weaknesses, tips) ==
    LET polished ==
            IF score >= 8 THEN Append(strengths, "Good answer -- clear and thorough")
            ELSE IF score >= 5
            THEN Append(strengths,
                    "Decent answer; with room to add more specifics or examples")
            ELSE strengths
        brief_reason == "Score: " \o ToString(score) \o "/10. " \o reasoning
    IN  Returned(score, brief_reason, polished, weaknesses, tips)

\* the branch qtype == "technical"
TechnicalRule(keywords, explanation, text) ==
    LET hasKw == Truthy(keywords)
        n == IF hasKw THEN Len(keywords.val) ELSE 0
        matched == IF hasKw THEN Matched(keywords.val, lower(text)) ELSE 0
        word_count == WordCount(text)
        \* coverage > 0.7 as matched / n > 7 / 10
        covered == hasKw /\ 10 * matched > 7 * n
        score0 == IF hasKw THEN RoundDiv(matched * 8, n)
                  ELSE Min(6, word_count \div 20)
        strengths0 == IF covered THEN <<"Covered most key concepts">> ELSE <<>>
        weaknesses0 == IF hasKw /\ ~covered
                       THEN <<"Missed some important concepts">> ELSE <<>>
        tips0 == IF hasKw /\ ~covered
                 THEN <<"Make sure to mention the core terms and explain how they fit together. Consider a short definition followed by an example.">>
                 ELSE <<>>
        score1 == IF word_count > 120 THEN Min(10, score0 + 1)
                  ELSE IF word_count < 30 THEN Max(0, score0 - 1)
                  ELSE score0
        strengths1 == IF word_count > 120
                      THEN Append(strengths0, "Provided detailed answer")
                      ELSE strengths0
        weaknesses1 == IF word_count <= 120 /\ word_count < 30
                       THEN Append(weaknesses0,
                               "Answer was short; expand with steps or examples")
                       ELSE weaknesses0
        score == Max(0, Min(10, score1))
        reasoning == IF hasKw
                     THEN "Keyword coverage: " \o ToString(matched) \o "/" \o ToString(n)
                     ELSE "Evaluated technical response by heuristics."
        tips1 == IF Truthy(explanation) /\ score < 6
                 THEN Append(tips0, "Review the key concept: " \o explanation.val)
                 ELSE tips0
    IN  FinalPolish(score, reasoning, strengths1, weaknesses1, tips1)

\* the cap forgotten: star_hits * 2, plus 2 for a measurable result
BehavioralScoreUncapped(star_hits, metric) ==
    star_hits * 2 + (IF metric THEN 2 ELSE 0)

\* score = min(10, star_hits * 2), then min(10, score + 2) on a regex match
BehavioralScore(star_hits, metric) ==
    IF metric THEN Min(10, Min(10, star_hits * 2) + 2) ELSE Min(10, star_hits * 2)

\* the branch qtype == "behavioral"
BehavioralRule(text) ==
    LET ans_lower == lower(text)
        star_hits == Cardinality({p \in DOMAIN StarMarkers :
                                     Contains(ans_lower, StarMarkers[p])})
        metric == MetricSearch(ans_lower)
        score == BehavioralScore(star_hits, metric)
        strengths0 == IF metric THEN <<"Included measurable results or metrics">>
                      ELSE <<>>
        strengths1 == IF star_hits >= 3
                      THEN Append(strengths0,
                              "Clear structure -- covers multiple STAR elements")
                      ELSE strengths0
        weaknesses == IF star_hits >= 3 THEN <<>>
                      ELSE <<"Missing parts of the STAR structure (Situation, Task, Action, Result)">>
        tips == IF star_hits >= 3 THEN <<>>
                ELSE <<"Use the STAR method: briefly state the Situation and Task, describe Actions you took, and end with the Result (preferably quantifiable).">>
        reasoning == "Detected STAR-like keywords: " \o ToString(star_hits)
    IN  FinalPolish(score, reasoning, strengths1, weaknesses, tips)

\* the else branch ("scenario-based"); iterating keywords that is None raises
ScenarioRule(keywords, text) ==
    IF keywords.tag # "list" THEN Raised("TypeError")
    ELSE
    LET ans_lower == lower(text)
        n == Len(keywords.val)
        matched == Matched(keywords.val, ans_lower)
        \* coverage = matched / n if keywords else 0
        score0 == IF n > 0 THEN RoundDiv(matched * 7, n) ELSE 0
        stepwise == \/ Contains(ans_lower, <<"s","t","e","p">>)
                    \/ Contains(ans_lower, <<"f","i","r","s","t">>)
                    \/ Contains(ans_lower, <<"t","h","e","n">>)
        score == IF stepwise THEN score0 + 2 ELSE score0
        strengths == IF stepwise THEN <<"Provided a stepwise approach">> ELSE <<>>
        \* coverage < 0.5 as matched / n < 1 / 2
        low == n = 0 \/ 2 * matched < n
        weaknesses == IF low THEN <<"Missed some technical or process-oriented items">>
                      ELSE <<>>
        tips == IF low
                THEN <<"Outline a clear step-by-step plan and mention key controls or mitigations.">>
                ELSE <<>>
        reasoning == "Scenario heuristic: " \o ToString(matched) \o "/"
                     \o ToString(n) \o " keywords matched"
    IN  FinalPolish(score, reasoning, strengths, weaknesses, tips)

\* the value returned for `not answer_text`
NoAnswer ==
    Returned(0, "No answer provided.", <<>>, <<"No response.">>,
             <<"Try to answer the question; use STAR for behavioral answers or outline steps for technical ones.">>)

\* evaluate_answer(question, answer_text): answer is None, a str (tag "text")
\* or a value of another JSON kind (tag "num": a non-zero number)
evaluate_answer(q, answer) ==
    IF ~Truthy(answer) THEN NoAnswer
    ELSE IF answer.tag # "text" THEN Raised("AttributeError")
    ELSE
    LET qtype == Get(q.type, Str("technical"))
        keywords == Get(q.keywords, List(<<>>))
        explanation == Get(q.explanation, Str(""))
    IN  IF qtype.tag = "str" /\ qtype.val = "technical"
        THEN TechnicalRule(keywords, explanation, answer.val)
        ELSE IF qtype.tag = "str" /\ qtype.val = "behavioral"
        THEN BehavioralRule(answer.val)
        ELSE ScenarioRule(keywords, answer.val)

-----------------------------------------------------------------------------
(* Inputs of the evaluator: question records and answer texts              *)

MaxAtoms == 2    \* an answer text is built from at most this many fragments

\* the keyword list the tests and the specification use, and a two-keyword list
Keywords3 == <<<<"s","y","m","m","e","t","r","i","c">>, <<"a","s","y","m","m","e","t","r","i","c">>, <<"T","L","S">>>>
Keywords2 == <<<<"T","L","S">>, <<"k","e","y">>>>

QuestionTypes == {Absent, Str("technical"), Str("behavioral"), Str("scenario"),
                  Str("practical")}
KeywordLists == {Absent, None, List(<<>>), List(Keywords2), List(Keywords3)}
Explanations == {Absent, None, Str("Symmetric uses one shared key.")}

\* the records a questions.json can hold (id and difficulty play no part in scoring)
EvalQuestions ==
    [id : {"q1"}, difficulty : {<<"B","a","s","i","c">>}, type : QuestionTypes,
     keywords : KeywordLists, explanation : Explanations]

\* n further one-letter words, each after a space
RECURSIVE Filler(_)
Filler(n) == IF n = 0 THEN <<>> ELSE <<" ", "w">> \o Filler(n - 1)

\* fragments of answer text; the two runs of filler words reach the thresholds
\* 30 and 120 of the length adjustment from below
Atoms == {
    <<" ">>,
    <<"x">>,
    <<"2","0","%">>,
    <<"2","0"," ","d","a","y","s">>,
    <<"r","e","d","u","c","e","d">>,
    <<"A","s","y","m","m","e","t","r","i","c">>,
    <<"t","L","S">>,
    <<"S","i","t","u","a","t","i","o","n"," ","t","a","s","k"," ","a","c","t","i","o","n">>,
    <<"r","e","s","u","l","t"," ","l","e","d"," ","i","m","p","a","c","t"," ","o","u","t","c","o","m","e"," ","r","e","s","p","o","n","s","i","b","l","e">>,
    <<"F","i","r","s","t"," ","k","e","y">>,
    Filler(29), Filler(120) }

RECURSIVE Flatten(_)
Flatten(parts) == IF parts = <<>> THEN <<>> ELSE Head(parts) \o Flatten(Tail(parts))

AtomSeqs == UNION {[1..n -> Atoms] : n \in 0..MaxAtoms}

AnswerTexts == {Flatten(a) : a \in AtomSeqs}

\* a non-zero JSON number
Num == [tag |-> "num", val |-> <<>>]

\* the answer values callers pass: None, a str, or a JSON number
Answers == {None, Num} \cup {Text(cs) : cs \in AnswerTexts}

NoResult == Raised("pending")

-----------------------------------------------------------------------------
(* choose_questions and get_multiline_input                                *)

\* seq[:count]
Slice(seq, count) ==
    IF count >= 0 THEN SubSeq(seq, 1, Min(count, Len(seq)))
    ELSE SubSeq(seq, 1, Max(Len(seq) + count, 0))

\* the orders random.shuffle can leave a list in
Shuffles(seq) == {[k \in 1..Len(seq) |-> seq[f[k]]] : f \in Permutations(1..Len(seq))}

SameDifficulty(q, d) == lower(q.difficulty) = lower(d)

\* choose_questions(qs, count, d, mix): the outcomes, each the list returned
\* (pool) and the caller's list afterwards (questions). With no question of
\* difficulty d, pool is the caller's list itself and the shuffle reorders it.
choose_questions(qs, count, d, mix) ==
    LET filtered == SelectSeq(qs, LAMBDA q : SameDifficulty(q, d))
    IN  IF filtered = <<>>
        THEN {[pool |-> Slice(sh, count), questions |-> sh] :
                 sh \in IF mix THEN Shuffles(qs) ELSE {qs}}
        ELSE {[pool |-> Slice(sh, count), questions |-> qs] :
                 sh \in IF mix THEN Shuffles(filtered) ELSE {filtered}}

\* "\n".join(lines)
RECURSIVE Join(_)
Join(lines) ==
    IF lines = <<>> THEN <<>>
    ELSE IF Len(lines) = 1 THEN lines[1]
    ELSE lines[1] \o <<"\n">> \o Join(Tail(lines))

\* the lines read before the first blank line (or the end of input)
RECURSIVE UntilBlank(_)
UntilBlank(lines) ==
    IF lines = <<>> \/ strip(Head(lines)) = <<>> THEN <<>>
    ELSE <<Head(lines)>> \o UntilBlank(Tail(lines))

\* get_multiline_input() when the user types `lines` and then ends the input
get_multiline_input(lines) == strip(Join(UntilBlank(lines)))

-----------------------------------------------------------------------------
(* The question file and what the user of the CLI types                    *)

Basic == <<"B","a","s","i","c">>
Intermediate == <<"I","n","t","e","r","m","e","d","i","a","t","e">>
Advanced == <<"A","d","v","a","n","c","e","d">>

Q1 == [id |-> "q1", type |-> Str("technical"), difficulty |-> Basic,
       keywords |-> List(Keywords3),
       explanation |-> Str("Symmetric uses one shared key.")]
Q2 == [id |-> "q2", type |-> Str("behavioral"), difficulty |-> Intermediate,
       keywords |-> Absent, explanation |-> Absent]
Q3 == [id |-> "q3", type |-> Str("scenario"), difficulty |-> Intermediate,
       keywords |-> List(Keywords2), explanation |-> Absent]
Q3n == [id |-> "q3", type |-> Str("scenario"), difficulty |-> Intermediate,
        keywords |-> None, explanation |-> None]

\* contents of questions.json: no question is Advanced; in the second file the
\* scenario question has null keywords
QuestionFiles == { <<Q1, Q2, Q3>>, <<Q1, Q2, Q3n>> }

\* answers to "Choose difficulty"
DifficultyInputs == { <<>>, <<" ","b","a","s","i","c">>, <<"A","D","V","A","N","C","E","D">>, <<"h","a","r","d">> }

\* answers to "How many questions": "", a number, or other text
CountInputs == { [tag |-> "empty", val |-> 0], [tag |-> "int", val |-> 2],
                 [tag |-> "int", val |-> 0 - 1], [tag |-> "bad", val |-> 0] }

\* what the user types as an answer, line by line
GoodLines == << <<"F","i","r","s","t"," ","A","s","y","m","m","e","t","r","i","c"," ","t","L","S"," ","k","e","y">>,
                <<"S","i","t","u","a","t","i","o","n"," ","t","a","s","k"," ","a","c","t","i","o","n"," ","r","e","s","u","l","t"," ","l","e","d">> >>
AnswerInputs == { <<>>, << <<"Q","U","I","T"," ">> >>, << <<"s","k","i","p">> >>, << <<"x">> >>, GoodLines }

\* what the user types at "explain / continue / quit"
PromptInputs == { <<>>, <<"E","x","p","l","a","i","n">>, <<" ","q","u","i","t">>, <<"w","h","a","t">> }

quit == <<"q","u","i","t">>
skip == <<"s","k","i","p">>

-----------------------------------------------------------------------------
(* interactive_session                                                     *)

\* int(input(...) or 5), with ValueError giving 5
ParseCount(c) == IF c.tag = "int" THEN c.val ELSE 5

RECURSIVE Sum(_)
Sum(seq) == IF seq = <<>> THEN 0 ELSE Head(seq) + Sum(Tail(seq))

\* the difficulty after the adaptive step; avg = statistics.mean(sc)
Adapt(d, sc) ==
    IF Sum(sc) >= 8 * Len(sc) /\ d # Advanced THEN Advanced
    ELSE IF Sum(sc) <= 3 * Len(sc) /\ d # Basic THEN Basic
    ELSE d

\* the fields of the tab-separated log_entry
log_entry(ts, d, id, score, reason) ==
    <<ts, d, "Q:" \o id, "Score:" \o ToString(score), "Reason:" \o reason>>

\* the file opened with "w" instead of "a": the entry replaces the log
log_session_truncating(lines, entry) == <<entry>>

\* log_session(entry)
log_session(lines, entry) == Append(lines, entry)

\* the for loop takes the next item of enumerate(pool), or ends
NextIteration ==
    IF it < Len(pool)
    THEN /\ it' = it + 1
         /\ i' = it + 1
         /\ pc' = "answer"
    ELSE /\ pc' = "summary"
         /\ UNCHANGED <<it, i>>

\* the "Choose difficulty" loop, one input() per step
ChooseDifficulty(d) ==
    /\ program = "cli" /\ pc = "difficulty"
    /\ typed' = lower(strip(d))
    /\ IF strip(d) = <<>>
       THEN pc' = "count" /\ UNCHANGED difficulty
       ELSE IF lower(strip(d)) \in {lower(Basic), lower(Intermediate), lower(Advanced)}
       THEN pc' = "count" /\ difficulty' = title(strip(d))
       ELSE UNCHANGED <<pc, difficulty>>
    /\ UNCHANGED <<questions, pool, it, i, scores, details, log, now, evals, returned>>
    /\ UNCHANGED <<evars, httpvars, program>>

\* "How many questions", choose_questions, and the first iteration of the loop
ChooseCount(c) ==
    /\ program = "cli" /\ pc = "count"
    /\ \E ch \in choose_questions(questions, ParseCount(c), difficulty, TRUE) :
          /\ questions' = ch.questions
          /\ pool' = ch.pool
          /\ IF ch.pool # <<>>
             THEN it' = 1 /\ i' = 1 /\ pc' = "answer"
             ELSE pc' = "summary" /\ UNCHANGED <<it, i>>
    /\ UNCHANGED <<difficulty, scores, details, typed, log, now, evals, returned>>
    /\ UNCHANGED <<evars, httpvars, program>>

\* one question: the answer is read; quit, skip, or evaluate, log and adapt
AnswerQuestion(lines) ==
    /\ program = "cli" /\ pc = "answer"
    /\ LET q == pool[i]
           user_ans == get_multiline_input(lines)
           cmd == lower(strip(user_ans))
           r == evaluate_answer(q, Text(user_ans))
       IN  /\ typed' = cmd
           /\ IF cmd = quit
              THEN /\ pc' = "summary"
                   /\ UNCHANGED <<it, i, scores, details, log, now, difficulty, evals, returned>>
              ELSE IF cmd = skip
              THEN /\ scores' = Append(scores, 0)
                   /\ details' = Append(details, <<q.id, 0, "skipped">>)
                   /\ NextIteration
                   /\ UNCHANGED <<log, now, difficulty, evals, returned>>
              ELSE IF r.raised # "none"
              THEN /\ evals' = evals + 1
                   /\ pc' = "crashed"
                   /\ UNCHANGED <<it, i, scores, details, log, now, difficulty,
                                  returned>>
              ELSE /\ evals' = evals + 1
                   /\ returned' = returned + 1
                   /\ scores' = Append(scores, r.score)
                   /\ details' = Append(details, <<q.id, r.score, r.reason>>)
                   /\ log' = log_session(log,
                                log_entry(now, difficulty, q.id, r.score, r.reason))
                   /\ now' = now + 1
                   /\ difficulty' = Adapt(difficulty, Append(scores, r.score))
                   /\ pc' = "prompt"
                   /\ UNCHANGED <<it, i>>
    /\ UNCHANGED <<questions, pool>>
    /\ UNCHANGED <<evars, httpvars, program>>

\* the "explain / continue / quit" loop, one input() per step. On quit the
\* code sets i = len(pool) and leaves the inner loop; the for loop goes on.
Prompt(n) ==
    /\ program = "cli" /\ pc = "prompt"
    /\ LET nxt == lower(strip(n))
       IN  /\ typed' = nxt
           /\ IF nxt \in {<<"c","o","n","t","i","n","u","e">>, <<"c">>, <<>>}
              THEN NextIteration
              ELSE IF nxt = quit
              THEN IF it < Len(pool)
                   THEN it' = it + 1 /\ i' = it + 1 /\ pc' = "answer"
                   ELSE i' = Len(pool) /\ pc' = "summary" /\ UNCHANGED it
              ELSE UNCHANGED <<it, i, pc>>
    /\ UNCHANGED <<questions, pool, difficulty, scores, details, log, now, evals, returned>>
    /\ UNCHANGED <<evars, httpvars, program>>

\* the session summary is printed
Summary ==
    /\ program = "cli" /\ pc = "summary"
    /\ pc' = "done"
    /\ UNCHANGED <<questions, pool, it, i, difficulty, scores, details, typed,
                   log, now, evals, returned>>
    /\ UNCHANGED <<evars, httpvars, program>>

-----------------------------------------------------------------------------
(* POST /api/evaluate in webapp/server_no_flask.py and webapp/app.py       *)

MaxRequests == 2    \* requests a server handles in one run

\* the request body: not JSON, or JSON null, [], [1], or an object with the
\* values of "question_id" and "answer" (Absent when the key is missing)
QidValues == {Absent, None, Str(""), Str("q1"), Str("q3"), Str("nope"), Num,
              List(<<"q1">>)}
AnswerValues == {Absent, None, Num, Text(<<" "," "," ">>),
                 Text(<<"F","i","r","s","t"," ","A","s","y","m","m","e","t","r","i","c"," ","t","L","S"," ","k","e","y">>)}
Payloads ==
    [body : {"invalid", "null", "emptyarray", "array"},
     question_id : {Absent}, answer : {Absent}]
    \cup [body : {"object"}, question_id : QidValues, answer : AnswerValues]

\* how a request ended: the number of responses sent, the status, the error
\* text or the evaluator's result in the body, the exception that left the
\* handler ("none" if none did), and whether evaluate_answer was called
Response(status, error, res, called) ==
    [responses |-> 1, status |-> status, error |-> error, result |-> res,
     exception |-> "none", evaluated |-> called]
\* server_no_flask: the exception leaves do_POST and nothing is sent
Unhandled(exc, called) ==
    [responses |-> 0, status |-> 0, error |-> "", result |-> NoResult,
     exception |-> exc, evaluated |-> called]
\* Flask: the exception leaves the view and Flask answers 500
ServerError(exc, called) ==
    [responses |-> 1, status |-> 500, error |-> "Internal Server Error",
     result |-> NoResult, exception |-> exc, evaluated |-> called]

\* qid in QUESTIONS_BY_ID, for a hashable qid
KnownId(qs, qid) == qid.tag = "str" /\ \E k \in DOMAIN qs : qs[k].id = qid.val

\* QUESTIONS_BY_ID[qid]; a later record with the same id replaces an earlier one
ById(qs, id) ==
    qs[CHOOSE k \in DOMAIN qs :
           qs[k].id = id /\ \A m \in DOMAIN qs : qs[m].id = id => m <= k]

\* what an exception that leaves the handler leads to
Failed(server, exc, called) ==
    IF server = "app" THEN ServerError(exc, called) ELSE Unhandled(exc, called)

\* from `qid = data.get('question_id')` to the end of the handler, the same
\* lines in both servers
EvaluateRequest(server, qs, data) ==
    LET qid == Get(data.question_id, None)
        answer == Get(data.answer, Text(<<>>))
    IN  IF ~Truthy(qid) THEN Response(400, "invalid question id", NoResult, FALSE)
        ELSE IF qid.tag = "list" THEN Failed(server, "TypeError", FALSE)
        ELSE IF ~KnownId(qs, qid)
        THEN Response(400, "invalid question id", NoResult, FALSE)
        ELSE LET r == evaluate_answer(ById(qs, qid.val), answer)
             IN  IF r.raised # "none" THEN Failed(server, r.raised, TRUE)
                 ELSE Response(200, "", r, TRUE)

\* Handler.do_POST of server_no_flask.py for path /api/evaluate
do_POST(qs, payload) ==
    IF payload.body = "invalid" THEN Response(400, "invalid json", NoResult, FALSE)
    ELSE IF payload.body # "object" THEN Unhandled("AttributeError", FALSE)
    ELSE EvaluateRequest("server_no_flask", qs, payload)

\* api_evaluate of app.py. request.get_json() answers a body that is not JSON
\* with 400 itself; `or {}` turns null and [] into an empty dict.
api_evaluate(qs, payload) ==
    IF payload.body = "invalid" THEN Response(400, "Bad Request", NoResult, FALSE)
    ELSE IF payload.body = "array" THEN ServerError("AttributeError", FALSE)
    ELSE EvaluateRequest("app", qs,
             IF payload.body = "object" THEN payload
             ELSE [payload EXCEPT !.question_id = Absent, !.answer = Absent])

NoRequest == [server |-> "none", payload |-> [body |-> "none"],
              outcome |-> Unhandled("pending", FALSE)]

\* one POST /api/evaluate request, from its arrival to the end of the handler
Post(payload) ==
    /\ program \in {"app", "server_no_flask"}
    /\ served < MaxRequests
    /\ LET out == IF program = "app" THEN api_evaluate(QUESTIONS, payload)
                  ELSE do_POST(QUESTIONS, payload)
       IN  /\ resp' = [server |-> program, payload |-> payload, outcome |-> out]
           /\ evals' = IF out.evaluated THEN evals + 1 ELSE evals
           /\ returned' = IF out.evaluated /\ out.exception = "none"
                          THEN returned + 1 ELSE returned
    /\ served' = served + 1
    /\ UNCHANGED <<QUESTIONS, program>>
    /\ UNCHANGED <<evars, clivars>>

-----------------------------------------------------------------------------
(* The programs                                                            *)

Programs == {"cli", "app", "server_no_flask"}

\* the evaluator harness is idle while one of the programs runs
EvalIdle ==
    /\ question = Q1
    /\ answer_text = None
    /\ result = NoResult
    /\ epc = "idle"

\* a program has started and has loaded the question file
Init ==
    /\ program \in Programs
    /\ \E file \in QuestionFiles :
          /\ questions = IF program = "cli" THEN file ELSE <<>>
          /\ QUESTIONS = IF program = "cli" THEN <<>> ELSE file
    /\ pc = IF program = "cli" THEN "difficulty" ELSE "serving"
    /\ difficulty = Intermediate
    /\ pool = <<>>
    /\ it = 0
    /\ i = 0
    /\ scores = <<>>
    /\ details = <<>>
    /\ typed = <<>>
    /\ log = <<>>
    /\ now = 0
    /\ evals = 0
    /\ returned = 0
    /\ resp = NoRequest
    /\ served = 0
    /\ EvalIdle

Next ==
    \/ \E d \in DifficultyInputs : ChooseDifficulty(d)
    \/ \E c \in CountInputs : ChooseCount(c)
    \/ \E lines \in AnswerInputs : AnswerQuestion(lines)
    \/ \E n \in PromptInputs : Prompt(n)
    \/ Summary
    \/ \E payload \in Payloads : Post(payload)

Spec == Init /\ [][Next]_vars

-----------------------------------------------------------------------------
(* The evaluator on its own: one call on inputs drawn from the sets above  *)

EvalInit ==
    /\ program = "eval"
    /\ question \in EvalQuestions
    /\ answer_text \in Answers
    /\ result = NoResult
    /\ epc = "call"
    /\ questions = <<>> /\ QUESTIONS = <<>>
    /\ pc = "none"
    /\ difficulty = Intermediate
    /\ pool = <<>> /\ it = 0 /\ i = 0
    /\ scores = <<>> /\ details = <<>> /\ typed = <<>>
    /\ log = <<>> /\ now = 0 /\ evals = 0 /\ returned = 0
    /\ resp = NoRequest /\ served = 0

Evaluate ==
    /\ program = "eval" /\ epc = "call"
    /\ result' = evaluate_answer(question, answer_text)
    /\ epc' = "done"
    /\ evals' = evals + 1
    /\ returned' = IF evaluate_answer(question, answer_text).raised = "none"
                   THEN returned + 1 ELSE returned
    /\ UNCHANGED <<question, answer_text, program>>
    /\ UNCHANGED <<clivars, httpvars>>

EvalNext == Evaluate

SpecEval == EvalInit /\ [][EvalNext]_vars

-----------------------------------------------------------------------------
(* Properties of evaluate_answer, checked under SpecEval                   *)

Called == program = "eval" /\ epc = "done"
TextAnswer == answer_text.tag = "text"
TypeOf(q) == Get(q.type, Str("technical")).val

\* C1: whenever evaluate_answer returns, on any branch, the score is an
\* integer from 0 to 10.
C1_ScoreInRange ==
    (Called /\ result.raised = "none") => result.score \in 0..10

\* C1 witness: a scenario answer with every keyword and the stepwise bonus
\* (7 + 2, added without a clamp) has been scored.
C1_ScenarioBonusScored ==
    /\ Called /\ result.raised = "none"
    /\ TypeOf(question) = "scenario"
    /\ "Provided a stepwise approach" \in Range(result.strengths)
    /\ result.score = 9

\* C2: an answer that is empty, or empty once its surrounding whitespace is
\* trimmed, gets score 0, the reason "No answer provided.", no strengths, the
\* one weakness "No response." and one tip, whatever the question type.
C2_BlankAnswerIsNoAnswer ==
    (Called /\ TextAnswer /\ strip(answer_text.val) = <<>>) =>
        /\ result.raised = "none"
        /\ result.score = 0
        /\ result.reason = "No answer provided."
        /\ result.strengths = <<>>
        /\ result.weaknesses = <<"No response.">>
        /\ Len(result.tips) = 1

\* C3: evaluate_answer never raises, for any question record (keywords or
\* explanation missing or null included) and an answer that is None or text.
C3_NeverRaises ==
    (Called /\ answer_text.tag \in {"none", "text"}) => result.raised = "none"

\* which rule a reason string comes from
ReasonRule(r) ==
    LET prefix == "Score: " \o ToString(r.score) \o "/10. "
    IN  IF \/ r.reason = prefix \o "Evaluated technical response by heuristics."
           \/ \E m \in 0..3, n \in 0..3 :
                 r.reason = prefix \o "Keyword coverage: " \o ToString(m)
                                   \o "/" \o ToString(n)
        THEN "technical"
        ELSE IF \E h \in 0..10 :
                   r.reason = prefix \o "Detected STAR-like keywords: " \o ToString(h)
        THEN "behavioral"
        ELSE IF \E m \in 0..3, n \in 0..3 :
                   r.reason = prefix \o "Scenario heuristic: " \o ToString(m)
                                     \o "/" \o ToString(n) \o " keywords matched"
        THEN "scenario"
        ELSE "other"

\* C4: a non-empty answer is scored by the behavioral rule only for type
\* "behavioral", by the scenario rule only for type "scenario", and by the
\* technical rule for type "technical", an absent type or an unrecognized one.
C4_RuleByType ==
    (Called /\ TextAnswer /\ answer_text.val # <<>> /\ result.raised = "none") =>
        ReasonRule(result) =
            IF TypeOf(question) \in {"behavioral", "scenario"}
            THEN TypeOf(question) ELSE "technical"

\* every keyword of q occurs in the text, letter case ignored
AllKeywordsIn(q, text) ==
    /\ q.keywords.tag = "list"
    /\ Len(q.keywords.val) > 0
    /\ \A k \in DOMAIN q.keywords.val :
          Contains(lower(text), lower(q.keywords.val[k]))

\* the length adjustment of the technical rule for a text
LengthAdjustment(text) ==
    IF WordCount(text) > 120 THEN 1 ELSE IF WordCount(text) < 30 THEN 0 - 1 ELSE 0

HasPercent(s) == \E p \in 1..(Len(s) - 1) : IsDigit(s[p]) /\ s[p + 1] = "%"

\* the measurable-result pattern as the claim words it: a percentage, or a
\* duration quantity or one of the four verbs as words of the text
MeasurableResult(s) ==
    \/ HasPercent(s)
    \/ \E p \in 0..Len(s) : WordBoundary(s, p) /\ (DurationAt(s, p) \/ VerbAt(s, p))

\* C6: for a behavioral question the score is min(10, 2 * star_hits + 2) and
\* "Included measurable results or metrics" is a strength when the answer has
\* a percentage, a duration quantity or one of the verbs; otherwise the score
\* is min(10, 2 * star_hits) and that strength is absent. A percentage
\* followed by a space, punctuation or the end of the text counts.
C6_MeasurableResultBonus ==
    (Called /\ TextAnswer /\ answer_text.val # <<>>
        /\ TypeOf(question) = "behavioral") =>
        \E star_hits \in 0..10 :
            /\ result.reason = "Score: " \o ToString(result.score)
                  \o "/10. Detected STAR-like keywords: " \o ToString(star_hits)
            /\ LET metric == MeasurableResult(lower(answer_text.val))
               IN  /\ result.score =
                          Min(10, 2 * star_hits + (IF metric THEN 2 ELSE 0))
                   /\ metric <=> "Included measurable results or metrics"
                                     \in Range(result.strengths)

-----------------------------------------------------------------------------
(* Properties of the HTTP servers and the CLI session, checked under Spec  *)

\* the payload is malformed: not a JSON object, or its question_id is
\* missing, not a string, or not the id of a loaded question
Malformed(payload, qs) ==
    \/ payload.body # "object"
    \/ payload.question_id.tag # "str"
    \/ ~KnownId(qs, payload.question_id)

\* C7: every POST /api/evaluate ends in exactly one response and no unhandled
\* exception; a malformed payload gets an error response without a call of
\* evaluate_answer, any other payload gets the evaluator's result.
C7_OneResponsePerRequest ==
    resp.server # "none" =>
        /\ resp.outcome.responses = 1
        /\ resp.outcome.exception = "none"
        /\ IF Malformed(resp.payload, QUESTIONS)
           THEN resp.outcome.status >= 400 /\ ~resp.outcome.evaluated
           ELSE /\ resp.outcome.status = 200
                /\ resp.outcome.evaluated
                /\ resp.outcome.result.raised = "none"

\* C8: no step of any program changes the loaded question collection: the
\* same records in the same order as after load.
C8_QuestionsNeverChange ==
    [][questions' = questions /\ QUESTIONS' = QUESTIONS]_vars

\* the entries of details that come from an evaluation
Evaluated(ds) == SelectSeq(ds, LAMBDA d : d[3] # "skipped")

\* log line k carries a timestamp, a difficulty label and the question id,
\* score and reason of the k-th evaluation of the session
LinesMatchEvaluations ==
    /\ Len(log) = Len(Evaluated(details))
    /\ \A k \in DOMAIN log :
          /\ log[k][1] \in 0..(now - 1)
          /\ log[k][2] \in {Basic, Intermediate, Advanced}
          /\ log[k][3] = "Q:" \o Evaluated(details)[k][1]
          /\ log[k][4] = "Score:" \o ToString(Evaluated(details)[k][2])
          /\ log[k][5] = "Reason:" \o Evaluated(details)[k][3]

C10_QuitEndsSession ==
    (program = "cli" /\ typed = quit /\ pc \notin {"difficulty", "count"}) =>
        pc \in {"summary", "done"}

\* the difficulty the adaptive step leaves, as a function of the mean of the
\* scores recorded so far
DifficultyForMean(sc, d) ==
    IF Sum(sc) >= 8 * Len(sc) THEN Advanced
    ELSE IF Sum(sc) <= 3 * Len(sc) THEN Basic
    ELSE d

\* the step evaluates a question of the CLI session
EvaluationStep == program = "cli" /\ returned' = returned + 1

\* first half of C11: an evaluation leaves the difficulty that the mean of
\* all recorded scores (skipped questions as 0) calls for.
AdaptsByMean == EvaluationStep => difficulty' = DifficultyForMean(scores', difficulty)

\* the difficulty in force after the k-th evaluation: the label of the next
\* log line, or the current difficulty after the last one
DifficultyAfter(k) == IF k < Len(log) THEN log[k + 1][2] ELSE difficulty

\* some evaluation of the session has changed the difficulty
DifficultyChanged == \E k \in DOMAIN log : DifficultyAfter(k) # log[k][2]

\* q is a question choose_questions selects for difficulty d: one of that
\* difficulty, or any question when none has it
SelectedFor(q, d) ==
    (\E k \in DOMAIN questions : SameDifficulty(questions[k], d)) =>
        SameDifficulty(q, d)

\* the step presents a question of the CLI session
PresentsQuestion == program = "cli" /\ pc' = "answer" /\ it' # it

\* C11: after each evaluated question the difficulty becomes Advanced when
\* the mean of the recorded scores is >= 8, Basic when it is <= 3, and is
\* otherwise unchanged; and a question presented after such a change is one
\* selected for the new difficulty.
C11_AdaptiveFlow ==
    [][/\ AdaptsByMean
       /\ (PresentsQuestion /\ DifficultyChanged) =>
              SelectedFor(pool'[i'], difficulty')]_vars

\* the first half of C11 alone, on every step
C11_DifficultyFollowsMean == [][AdaptsByMean]_vars

\* a session has been raised to Advanced and another lowered to Basic by an
\* evaluation
C11_Raised ==
    program = "cli" /\ DifficultyChanged /\ difficulty = Advanced
C11_Lowered ==
    program = "cli" /\ DifficultyChanged /\ difficulty = Basic

====
